---- MODULE Spec2Model ----
(***************************************************************************)
(* Submission.run_tests of gkeepserver/submission.py as a state machine.   *)
(*                                                                         *)
(* Every run r is one call of Submission.run_tests on its own thread.      *)
(* The steps of run_tests are the actions; a step that calls an external   *)
(* command (git, cp, chown, docker, the sandbox) either returns or raises. *)
(* An exception raised outside the try block of run_tests leaves the       *)
(* method (pc = "raised"); one raised inside it is handled by the except   *)
(* clause, which calls report_failure.                                     *)
(***************************************************************************)
EXTENDS Naturals, FiniteSets, Sequences, TLC

\* ------------------------------------------------------------------ bounds
NumRuns == 2        \* concurrent calls of run_tests
MaxUpdates == 1     \* updates of the assignment's assets by the faculty
MaxTime == 1        \* seconds the clock read by strftime can advance

Runs == 1 .. NumRuns
Updater == 0        \* the holder id of the party updating an assignment

\* ------------------------------------------------------------- the world
AssignmentDirs == {"hw1"}
Students == {"alice", "prof"}
faculty_username == "prof"

\* test_env.yaml of an assignment: no file, or a file with a type field
EnvFiles == {"absent", "host", "firejail", "docker", "other"}
NoCopy == "nocopy"
NoDir == 0
DirNames == 1 .. NumRuns
NoVer == 99

\* how the sandboxed script can end: a clean exit, a non-zero exit, or the
\* timeout of run_action.sh
ExitKinds == {"exit0", "nonzero", "timeout"}
NoExit == "running"
\* what run_command can return: the output of the test command, of the pull
Outputs == {"test_output", "pull_output"}
NoBody == "nobody"
NoFile == <<>>

Events == {"closed_email", "disabled_email", "result_email",
           "apology_email", "diagnostic_email", "scan", "report_failure",
           "pull", "sandbox", "clone", "checkout", "cp", "chown", "lock"}

VARIABLES
    pc,             \* pc[r]: the step run r is about to execute
    student,        \* student[r]: self.student.username
    assignment_dir, \* assignment_dir[r]: self.assignment_dir.path
    class_open,     \* class_open[r]: what db.class_is_open answers for r
    disabled,       \* disabled[r]: what db.is_disabled answers for r
    temp_path,      \* temp_path[r]: the directory mkdtemp returned, or NoDir
    tempdirs,       \* the temporary directories that exist on disk
    holders,        \* holders[a]: who holds directory_locks.get_lock(a)
    assets,         \* assets[a]: tests directory and test_env.yaml of a
    updater,        \* position and target of the assignment update
    snap,           \* snap[r]: what r copied into its temporary directory
    run_action,     \* run_action[r]: the run_action.sh written for r
    exec_env,       \* exec_env[r]: test_env.type resolved in the try block
    n,              \* n[r][e]: how often run r did e
    failed_at,      \* failed_at[r]: the step of r that raised, or "none"
    reports,        \* the files of the reports repositories
    clock,          \* the second strftime last returned
    body,           \* body[r]: what run_command(cmd) returned to r
    exit_kind,      \* exit_kind[r]: how r's sandbox subprocess ended
    report_file     \* report_file[r]: report_file_path chosen in _add_report

vars == <<pc, student, assignment_dir, class_open, disabled, temp_path,
          tempdirs, holders, assets, updater, snap, run_action, exec_env, n,
          failed_at, reports, clock, body, exit_kind, report_file>>

\* ----------------------------------------------------------- external code

\* TestEnv(path).type: a missing test_env.yaml means the host environment
TestEnvType(file) ==
    IF file \in {"absent", NoCopy} THEN "host" ELSE file

\* directory_locks: one exclusive, non-reentrant lock per directory path
LockFree(a) == holders[a] = {}

Acquire(a, h) == [holders EXCEPT ![a] = @ \cup {h}]

Release(a, h) == [holders EXCEPT ![a] = @ \ {h}]

\* -------------------------------------------------- the two with statements

WithEnterWithoutWaiting(r) == TRUE

\* with directory_locks.get_lock(self.assignment_dir.path): the block is
\* entered once the lock is free
WithEnter(r) == LockFree(assignment_dir[r])

WithExitKeepsLock(r) == holders

\* the end of the with block releases the lock
WithExit(r) == Release(assignment_dir[r], r)

WithExitByExceptionKeepsLock(r) == holders

\* an exception that leaves the with block releases the lock as well
WithExitByException(r) == Release(assignment_dir[r], r)

\* ------------------------------------------------------------------ helpers
Bump(r, e) == [n EXCEPT ![r][e] = @ + 1]

\* an exception that leaves run_tests
Raise(r, step) ==
    /\ pc' = [pc EXCEPT ![r] = "raised"]
    /\ failed_at' = [failed_at EXCEPT ![r] = step]

\* an exception inside the try block: control goes to the except clause
Catch(r, step) ==
    /\ pc' = [pc EXCEPT ![r] = "report_failure"]
    /\ failed_at' = [failed_at EXCEPT ![r] = step]

Goto(r, step) ==
    /\ pc' = [pc EXCEPT ![r] = step]
    /\ UNCHANGED failed_at

Init ==
    /\ pc = [r \in Runs |-> "start"]
    /\ student \in [Runs -> Students]
    /\ assignment_dir \in [Runs -> AssignmentDirs]
    /\ class_open \in [Runs -> BOOLEAN]
    /\ disabled \in [Runs -> BOOLEAN]
    /\ temp_path = [r \in Runs |-> NoDir]
    /\ tempdirs = {}
    /\ holders = [a \in AssignmentDirs |-> {}]
    /\ assets \in [AssignmentDirs ->
                    [tests : {0}, env_ver : {0}, env : EnvFiles,
                     script : BOOLEAN]]
    /\ updater = [pc |-> "idle", dir |-> "hw1", done |-> 0]
    /\ snap = [r \in Runs |-> [tests |-> NoVer, env_ver |-> NoVer,
                               env |-> NoCopy]]
    /\ run_action = [r \in Runs |-> "absent"]
    /\ exec_env = [r \in Runs |-> "unresolved"]
    /\ n = [r \in Runs |-> [e \in Events |-> 0]]
    /\ failed_at = [r \in Runs |-> "none"]
    /\ reports = {}
    /\ clock = 0
    /\ body = [r \in Runs |-> NoBody]
    /\ exit_kind = [r \in Runs |-> NoExit]
    /\ report_file = [r \in Runs |-> NoFile]


\* ------------------------------------------------------- run_tests, step 1

PreconditionSkipsClassCheck(r) ==
    IF disabled[r] THEN "disabled" ELSE "ok"

PreconditionSkipsDisabledCheck(r) ==
    IF ~class_open[r] THEN "closed" ELSE "ok"

\* the two queries of the database and what run_tests does with them
Precondition(r) ==
    IF ~class_open[r] THEN "closed"
    ELSE IF disabled[r] THEN "disabled"
    ELSE "ok"

PreconditionCheck(r) ==
    /\ pc[r] = "start"
    /\ \/ /\ Precondition(r) = "closed"
          /\ n' = Bump(r, "closed_email")          \* _send_closed_email
          /\ Goto(r, "returned")
       \/ /\ Precondition(r) = "disabled"
          /\ n' = Bump(r, "disabled_email")        \* _send_disabled_email
          /\ Goto(r, "returned")
       \/ /\ Precondition(r) = "ok"
          /\ n' = n
          /\ Goto(r, "mkdtemp")
    /\ UNCHANGED <<student, assignment_dir, class_open, disabled, temp_path,
                   tempdirs, holders, assets, updater, snap, run_action,
                   exec_env, reports, clock, body, exit_kind, report_file>>

\* ------------------------------------------------------- run_tests, step 2

FreshNamesOrUsedOnes == DirNames

\* the names mkdtemp can return: prefixed with the time and completed with
\* random characters until no such directory exists; no name comes twice
FreshNames == DirNames \ {temp_path[q] : q \in Runs}

\* mkdtemp(dir=..., prefix=...) creates the directory; chmod(temp_path, '770')
Mkdtemp(r) ==
    /\ pc[r] = "mkdtemp"
    /\ \/ /\ \E d \in FreshNames :
                /\ tempdirs' = tempdirs \cup {d}
                /\ temp_path' = [temp_path EXCEPT ![r] = d]
          /\ Goto(r, "git_clone")
       \/ /\ UNCHANGED <<tempdirs, temp_path>>     \* mkdtemp raises
          /\ Raise(r, "mkdtemp")
    /\ UNCHANGED <<student, assignment_dir, class_open, disabled, holders,
                   assets, updater, snap, run_action, exec_env, n, reports,
                   clock, body, exit_kind, report_file>>

GitClone(r) ==
    /\ pc[r] = "git_clone"
    /\ n' = Bump(r, "clone")
    /\ \/ Goto(r, "git_checkout")
       \/ Raise(r, "git_clone")
    /\ UNCHANGED <<student, assignment_dir, class_open, disabled, temp_path,
                   tempdirs, holders, assets, updater, snap, run_action,
                   exec_env, reports, clock, body, exit_kind, report_file>>

GitCheckout(r) ==
    /\ pc[r] = "git_checkout"
    /\ n' = Bump(r, "checkout")
    /\ \/ Goto(r, "lock_copy")
       \/ Raise(r, "git_checkout")
    /\ UNCHANGED <<student, assignment_dir, class_open, disabled, temp_path,
                   tempdirs, holders, assets, updater, snap, run_action,
                   exec_env, reports, clock, body, exit_kind, report_file>>

\* with directory_locks.get_lock(self.assignment_dir.path): entering
LockForCopy(r) ==
    /\ pc[r] = "lock_copy"
    /\ WithEnter(r)
    /\ holders' = Acquire(assignment_dir[r], r)
    /\ n' = Bump(r, "lock")
    /\ Goto(r, "cp_tests")
    /\ UNCHANGED <<student, assignment_dir, class_open, disabled, temp_path,
                   tempdirs, assets, updater, snap, run_action, exec_env,
                   reports, clock, body, exit_kind, report_file>>

\* cp(self.tests_path, temp_path, recursive=True); an exception leaves the
\* with block, which releases the lock
CpTests(r) ==
    /\ pc[r] = "cp_tests"
    /\ n' = Bump(r, "cp")
    /\ \/ /\ snap' = [snap EXCEPT
                        ![r].tests = assets[assignment_dir[r]].tests]
          /\ holders' = holders
          /\ Goto(r, "cp_test_env")
       \/ /\ snap' = snap
          /\ holders' = WithExitByException(r)
          /\ Raise(r, "cp_tests")
    /\ UNCHANGED <<student, assignment_dir, class_open, disabled, temp_path,
                   tempdirs, assets, updater, run_action, exec_env, reports,
                   clock, body, exit_kind, report_file>>

\* if os.path.exists(self.test_env_path): cp(...); then the with block ends
CpTestEnv(r) ==
    /\ pc[r] = "cp_test_env"
    /\ LET a == assets[assignment_dir[r]] IN
       \/ /\ a.env = "absent"
          /\ snap' = [snap EXCEPT ![r].env_ver = a.env_ver]
          /\ holders' = WithExit(r)
          /\ Goto(r, "write_run_action_sh")
       \/ /\ a.env # "absent"
          /\ snap' = [snap EXCEPT ![r].env_ver = a.env_ver, ![r].env = a.env]
          /\ holders' = WithExit(r)
          /\ Goto(r, "write_run_action_sh")
       \/ /\ a.env # "absent"
          /\ snap' = snap
          /\ holders' = WithExitByException(r)
          /\ Raise(r, "cp_test_env")
    /\ UNCHANGED <<student, assignment_dir, class_open, disabled, temp_path,
                   tempdirs, assets, updater, run_action, exec_env, n,
                   reports, clock, body, exit_kind, report_file>>

\* the cd line of run_action.sh: run_path is the tester's home for firejail,
\* None for docker, temp_path otherwise
CdCommand(type) ==
    IF type = "firejail" THEN "cd_home"
    ELSE IF type = "docker" THEN "no_cd"
    ELSE "cd_temp"

WriteRunActionShFailureIgnored(r) ==
    /\ pc[r] = "write_run_action_sh"
    /\ \/ /\ assets[assignment_dir[r]].script
          /\ run_action' = [run_action EXCEPT
                               ![r] = CdCommand(TestEnvType(snap[r].env))]
       \/ /\ ~assets[assignment_dir[r]].script
          /\ run_action' = run_action
    /\ Goto(r, "sudo_chown")
    /\ UNCHANGED <<student, assignment_dir, class_open, disabled, temp_path,
                   tempdirs, holders, assets, updater, snap, exec_env, n,
                   reports, clock, body, exit_kind, report_file>>

\* test_env = TestEnv(<temp_path>/test_env.yaml); write_run_action_sh(...):
\* the action script is looked up in self.tests_path
WriteRunActionSh(r) ==
    /\ pc[r] = "write_run_action_sh"
    /\ \/ /\ assets[assignment_dir[r]].script
          /\ run_action' = [run_action EXCEPT
                               ![r] = CdCommand(TestEnvType(snap[r].env))]
          /\ Goto(r, "sudo_chown")
       \/ /\ ~assets[assignment_dir[r]].script   \* No valid action script
          /\ run_action' = run_action
          /\ Raise(r, "no_action_script")
       \/ /\ assets[assignment_dir[r]].script    \* open or mv raises
          /\ run_action' = run_action
          /\ Raise(r, "write_run_action_sh")
    /\ UNCHANGED <<student, assignment_dir, class_open, disabled, temp_path,
                   tempdirs, holders, assets, updater, snap, exec_env, n,
                   reports, clock, body, exit_kind, report_file>>

SudoChown(r) ==
    /\ pc[r] = "sudo_chown"
    /\ n' = Bump(r, "chown")
    /\ \/ Goto(r, "test_env")
       \/ Raise(r, "sudo_chown")
    /\ UNCHANGED <<student, assignment_dir, class_open, disabled, temp_path,
                   tempdirs, holders, assets, updater, snap, run_action,
                   exec_env, reports, clock, body, exit_kind, report_file>>

\* -------------------------------------------------- run_tests, steps 3 and 4

\* test_env = TestEnv(self.test_env_path), read from the assignment
\* directory, and the if/elif chain on test_env.type
ResolveTestEnv(r) ==
    /\ pc[r] = "test_env"
    /\ LET type == TestEnvType(assets[assignment_dir[r]].env) IN
       /\ exec_env' = [exec_env EXCEPT ![r] = type]
       /\ \/ /\ type = "docker"
             /\ Goto(r, "docker_pull")
          \/ /\ type \in {"firejail", "host"}
             /\ Goto(r, "run_command")
          \/ /\ type \notin {"docker", "firejail", "host"}
             /\ Catch(r, "unknown_env")      \* raise GkeepException
    /\ UNCHANGED <<student, assignment_dir, class_open, disabled, temp_path,
                   tempdirs, holders, assets, updater, snap, run_action, n,
                   reports, clock, body, exit_kind, report_file>>

DockerPullFailureIgnored(r) ==
    /\ pc[r] = "docker_pull"
    /\ n' = Bump(r, "pull")
    /\ pc' = [pc EXCEPT ![r] = "run_command"]
    /\ \/ failed_at' = failed_at
       \/ failed_at' = [failed_at EXCEPT ![r] = "docker_pull"]
    /\ UNCHANGED <<student, assignment_dir, class_open, disabled, temp_path,
                   tempdirs, holders, assets, updater, snap, run_action,
                   exec_env, reports, clock, body, exit_kind, report_file>>

\* run_command(['docker', 'pull', test_env.image]): the output is dropped
DockerPull(r) ==
    /\ pc[r] = "docker_pull"
    /\ n' = Bump(r, "pull")
    /\ \/ Goto(r, "run_command")
       \/ Catch(r, "docker_pull")
    /\ UNCHANGED <<student, assignment_dir, class_open, disabled, temp_path,
                   tempdirs, holders, assets, updater, snap, run_action,
                   exec_env, reports, clock, body, exit_kind, report_file>>

\* body = run_command(cmd): the sandbox subprocess is started, or cannot be
RunCommand(r) ==
    /\ pc[r] = "run_command"
    /\ \/ /\ n' = Bump(r, "sandbox")
          /\ Goto(r, "sandbox")
       \/ /\ n' = n
          /\ Catch(r, "run_command")
    /\ UNCHANGED <<student, assignment_dir, class_open, disabled, temp_path,
                   tempdirs, holders, assets, updater, snap, run_action,
                   exec_env, reports, clock, body, exit_kind, report_file>>

\* run_command waits for the subprocess and returns its output, however
\* the script ended, or raises
SandboxEnds(r) ==
    /\ pc[r] = "sandbox"
    /\ \/ /\ \E k \in ExitKinds : exit_kind' = [exit_kind EXCEPT ![r] = k]
          /\ body' = [body EXCEPT ![r] = "test_output"]
          /\ Goto(r, "enqueue_email")
       \/ /\ UNCHANGED <<exit_kind, body>>
          /\ Catch(r, "sandbox")
    /\ UNCHANGED <<student, assignment_dir, class_open, disabled, temp_path,
                   tempdirs, holders, assets, updater, snap, run_action,
                   exec_env, n, reports, clock, report_file>>

NeedsReportAlways(r) == TRUE

\* if self.student.username != faculty_username
NeedsReport(r) == student[r] # faculty_username

EnqueueResultEmailOnCleanExit(r) ==
    /\ pc[r] = "enqueue_email"
    /\ exit_kind' = [exit_kind EXCEPT ![r] = NoExit]
    /\ \/ /\ exit_kind[r] = "exit0"
          /\ n' = Bump(r, "result_email")
          /\ Goto(r, IF NeedsReport(r) THEN "lock_report" ELSE "cleanup")
       \/ /\ exit_kind[r] # "exit0"
          /\ n' = n
          /\ Catch(r, "exit_status")
    /\ UNCHANGED <<student, assignment_dir, class_open, disabled, temp_path,
                   tempdirs, holders, assets, updater, snap, run_action,
                   exec_env, reports, clock, body, report_file>>

\* email_sender.enqueue(Email(self.student.email_address, ...)), then the
\* test on the submitter; nothing has looked at how the script ended
EnqueueResultEmail(r) ==
    /\ pc[r] = "enqueue_email"
    /\ n' = Bump(r, "result_email")
    /\ exit_kind' = [exit_kind EXCEPT ![r] = NoExit]
    /\ \/ /\ NeedsReport(r)
          /\ Goto(r, "lock_report")
       \/ /\ ~NeedsReport(r)
          /\ Goto(r, "cleanup")
    /\ UNCHANGED <<student, assignment_dir, class_open, disabled, temp_path,
                   tempdirs, holders, assets, updater, snap, run_action,
                   exec_env, reports, clock, body, report_file>>

\* with directory_locks.get_lock(self.assignment_dir.path): entering
LockForReport(r) ==
    /\ pc[r] = "lock_report"
    /\ WithEnter(r)
    /\ holders' = Acquire(assignment_dir[r], r)
    /\ n' = Bump(r, "lock")
    /\ Goto(r, "add_report")
    /\ UNCHANGED <<student, assignment_dir, class_open, disabled, temp_path,
                   tempdirs, assets, updater, snap, run_action, exec_env,
                   reports, clock, body, exit_kind, report_file>>

\* os.path.exists(report_file_path) in the reports repository of directory a
ReportExists(a, s, ts, k) ==
    \E f \in reports : f.dir = a /\ f.student = s /\ f.ts = ts /\ f.k = k

ReportSuffixWithoutLoop(a, s, ts, k) == k

\* counter = 1; while os.path.exists(report_file_path): ... counter += 1
\* (k = 0 is report-<ts>.txt, k > 0 is report-<ts>-<k>.txt)
RECURSIVE ReportSuffix(_, _, _, _)
ReportSuffix(a, s, ts, k) ==
    IF ReportExists(a, s, ts, k) THEN ReportSuffix(a, s, ts, k + 1) ELSE k

\* with open(report_file_path, 'w') as f: f.write(body)
WriteReport(a, s, ts, k, r) ==
    {f \in reports : ~(f.dir = a /\ f.student = s /\ f.ts = ts /\ f.k = k)}
        \cup {[dir |-> a, student |-> s, ts |-> ts, k |-> k, by |-> r,
               body |-> body[r]]}

AddReportTakesLockAgain(r) ==
    /\ pc[r] = "add_report"
    /\ WithEnter(r)
    /\ \E ts \in clock .. MaxTime :
          /\ clock' = ts
          /\ report_file' = [report_file EXCEPT ![r] =
                <<ts, ReportSuffix(assignment_dir[r], student[r], ts, 0)>>]
    /\ holders' = holders
    /\ Goto(r, "write_report")
    /\ UNCHANGED <<student, assignment_dir, class_open, disabled, temp_path,
                   tempdirs, assets, updater, snap, run_action, exec_env, n,
                   reports, body, exit_kind>>

\* self._add_report(body), first half: reports_clone, the timestamp and the
\* loop that looks for a free file name; strftime reads a clock that does
\* not go back
AddReport(r) ==
    /\ pc[r] = "add_report"
    /\ \/ /\ \E ts \in clock .. MaxTime :
                /\ clock' = ts
                /\ report_file' = [report_file EXCEPT ![r] =
                      <<ts, ReportSuffix(assignment_dir[r], student[r],
                                         ts, 0)>>]
          /\ holders' = holders
          /\ Goto(r, "write_report")
       \/ /\ UNCHANGED <<clock, report_file>>   \* reports_clone raises
          /\ holders' = WithExitByException(r)
          /\ Catch(r, "reports_clone")
    /\ UNCHANGED <<student, assignment_dir, class_open, disabled, temp_path,
                   tempdirs, assets, updater, snap, run_action, exec_env, n,
                   reports, body, exit_kind>>

CommitReportFailureIgnored(r) ==
    /\ pc[r] = "write_report"
    /\ reports' = WriteReport(assignment_dir[r], student[r],
                              report_file[r][1], report_file[r][2], r)
    /\ holders' = WithExit(r)
    /\ pc' = [pc EXCEPT ![r] = "enqueue_scan"]
    /\ \/ failed_at' = failed_at
       \/ failed_at' = [failed_at EXCEPT ![r] = "git_commit"]
    /\ report_file' = [report_file EXCEPT ![r] = NoFile]
    /\ UNCHANGED <<student, assignment_dir, class_open, disabled, temp_path,
                   tempdirs, assets, updater, snap, run_action, exec_env, n,
                   clock, body, exit_kind>>

\* self._add_report(body), second half: the file is written, git_add_all and
\* git_commit run, and the with block ends
CommitReport(r) ==
    /\ pc[r] = "write_report"
    /\ reports' = WriteReport(assignment_dir[r], student[r],
                              report_file[r][1], report_file[r][2], r)
    /\ \/ /\ holders' = WithExit(r)
          /\ Goto(r, "enqueue_scan")
       \/ /\ holders' = WithExitByException(r)  \* git_commit raises
          /\ Catch(r, "git_commit")
    /\ report_file' = [report_file EXCEPT ![r] = NoFile]
    /\ UNCHANGED <<student, assignment_dir, class_open, disabled, temp_path,
                   tempdirs, assets, updater, snap, run_action, exec_env, n,
                   clock, body, exit_kind>>

EnqueueSubmissionScanDropped(r) ==
    /\ pc[r] = "enqueue_scan"
    /\ n' = n
    /\ Goto(r, "cleanup")
    /\ UNCHANGED <<student, assignment_dir, class_open, disabled, temp_path,
                   tempdirs, holders, assets, updater, snap, run_action,
                   exec_env, reports, clock, body, exit_kind, report_file>>

\* info_updater.enqueue_submission_scan(...)
EnqueueSubmissionScan(r) ==
    /\ pc[r] = "enqueue_scan"
    /\ n' = Bump(r, "scan")
    /\ Goto(r, "cleanup")
    /\ UNCHANGED <<student, assignment_dir, class_open, disabled, temp_path,
                   tempdirs, holders, assets, updater, snap, run_action,
                   exec_env, reports, clock, body, exit_kind, report_file>>

\* ------------------------------------------------------- run_tests, step 5

\* report_failure: one email to the student, one to the faculty
report_failure(r) ==
    [n EXCEPT ![r]["report_failure"] = @ + 1,
              ![r]["apology_email"] = @ + 1,
              ![r]["diagnostic_email"] = @ + 1]

\* except Exception as e: report_failure(...)
ReportFailure(r) ==
    /\ pc[r] = "report_failure"
    /\ n' = report_failure(r)
    /\ Goto(r, "cleanup")
    /\ UNCHANGED <<student, assignment_dir, class_open, disabled, temp_path,
                   tempdirs, holders, assets, updater, snap, run_action,
                   exec_env, reports, clock, body, exit_kind, report_file>>

\* ------------------------------------------------------- run_tests, step 6

\* if os.path.isdir(temp_path): rm(temp_path, recursive=True, sudo=True)
RemoveTempDir(r) ==
    /\ pc[r] = "cleanup"
    /\ tempdirs' = tempdirs \ {temp_path[r]}
    /\ Goto(r, "returned")
    /\ UNCHANGED <<student, assignment_dir, class_open, disabled, temp_path,
                   holders, assets, updater, snap, run_action, exec_env, n,
                   reports, clock, body, exit_kind, report_file>>

\* ------------------------------------------- the faculty updates an assignment

\* the update takes the assignment's lock, replaces the tests directory,
\* then test_env.yaml, and releases the lock
UpdateBegin(a) ==
    /\ updater.pc = "idle"
    /\ updater.done < MaxUpdates
    /\ LockFree(a)
    /\ holders' = Acquire(a, Updater)
    /\ updater' = [updater EXCEPT !.pc = "tests", !.dir = a]
    /\ UNCHANGED <<pc, student, assignment_dir, class_open, disabled,
                   temp_path, tempdirs, assets, snap, run_action, exec_env,
                   n, failed_at, reports, clock, body, exit_kind, report_file>>

UpdateTests ==
    /\ updater.pc = "tests"
    /\ \E sc \in BOOLEAN :
          assets' = [assets EXCEPT ![updater.dir].tests = @ + 1,
                                   ![updater.dir].script = sc]
    /\ updater' = [updater EXCEPT !.pc = "test_env"]
    /\ UNCHANGED <<pc, student, assignment_dir, class_open, disabled,
                   temp_path, tempdirs, holders, snap, run_action, exec_env,
                   n, failed_at, reports, clock, body, exit_kind, report_file>>

UpdateTestEnv ==
    /\ updater.pc = "test_env"
    /\ \E e \in EnvFiles :
          assets' = [assets EXCEPT ![updater.dir].env_ver = @ + 1,
                                   ![updater.dir].env = e]
    /\ holders' = Release(updater.dir, Updater)
    /\ updater' = [updater EXCEPT !.pc = "idle", !.done = @ + 1]
    /\ UNCHANGED <<pc, student, assignment_dir, class_open, disabled,
                   temp_path, tempdirs, snap, run_action, exec_env, n,
                   failed_at, reports, clock, body, exit_kind, report_file>>

\* ------------------------------------------------------------ specification
Next ==
    \/ \E r \in Runs :
          \/ PreconditionCheck(r)
          \/ Mkdtemp(r)
          \/ GitClone(r)
          \/ GitCheckout(r)
          \/ LockForCopy(r)
          \/ CpTests(r)
          \/ CpTestEnv(r)
          \/ WriteRunActionSh(r)
          \/ SudoChown(r)
          \/ ResolveTestEnv(r)
          \/ DockerPull(r)
          \/ RunCommand(r)
          \/ SandboxEnds(r)
          \/ EnqueueResultEmail(r)
          \/ LockForReport(r)
          \/ AddReport(r)
          \/ CommitReport(r)
          \/ EnqueueSubmissionScan(r)
          \/ ReportFailure(r)
          \/ RemoveTempDir(r)
    \/ \E a \in AssignmentDirs : UpdateBegin(a)
    \/ UpdateTests
    \/ UpdateTestEnv

Spec == Init /\ [][Next]_vars

\* ------------------------------------------- specification with fairness

\* two submissions of one student that pass the precondition checks, to an
\* assignment with a docker descriptor that the faculty may still update
InitAccepted ==
    /\ Init
    /\ \A r \in Runs : class_open[r] /\ ~disabled[r] /\ student[r] = "alice"
    /\ \A a \in AssignmentDirs : assets[a].env = "docker" /\ assets[a].script

\* the steps of run r that wait for nothing: each is an external call that
\* returns or raises
RunStep(r) ==
    \/ PreconditionCheck(r)
    \/ Mkdtemp(r)
    \/ GitClone(r)
    \/ GitCheckout(r)
    \/ CpTests(r)
    \/ CpTestEnv(r)
    \/ WriteRunActionSh(r)
    \/ SudoChown(r)
    \/ ResolveTestEnv(r)
    \/ DockerPull(r)
    \/ RunCommand(r)
    \/ SandboxEnds(r)
    \/ EnqueueResultEmail(r)
    \/ AddReport(r)
    \/ CommitReport(r)
    \/ EnqueueSubmissionScan(r)
    \/ ReportFailure(r)
    \/ RemoveTempDir(r)

\* every call returns or raises, the lock is fair to the runs that wait for
\* it, and an update that began ends
Fairness ==
    /\ \A r \in Runs : WF_vars(RunStep(r))
    /\ \A r \in Runs : SF_vars(LockForCopy(r) \/ LockForReport(r))
    /\ WF_vars(UpdateTests \/ UpdateTestEnv)

FairSpec == InitAccepted /\ [][Next]_vars /\ Fairness

\* ---------------------------------------------------------------- properties
Ended(r) == pc[r] \in {"returned", "raised"}

\* the submission passes the precondition checks
Accepted(r) == class_open[r] /\ ~disabled[r]

ReportsBy(r) == {f \in reports : f.by = r}

InCopy(r) == pc[r] \in {"cp_tests", "cp_test_env"}

\* the image pull and the sandbox command
InExecution(r) == pc[r] \in {"docker_pull", "run_command", "sandbox"}

LockedRegion == {"cp_tests", "cp_test_env", "add_report", "write_report"}

Updating(a) == updater.pc # "idle" /\ updater.dir = a

\* C1: no exception of an accepted submission leaves run_tests, and a run
\* in which a step raised has called report_failure once by the time it
\* reaches the cleanup.
C1_EveryFailureIsCaught ==
    \A r \in Runs :
        Accepted(r) =>
            /\ pc[r] # "raised"
            /\ (failed_at[r] # "none" /\ pc[r] \in {"cleanup", "returned"})
                   => n[r]["report_failure"] = 1

\* C2: once a run is over, however it ended, the temporary directory it
\* allocated does not exist.
C2_TempDirGoneAfterEveryRun ==
    \A r \in Runs : Ended(r) => temp_path[r] \notin tempdirs

\* C3: two runs on the same assignment are never both copying the test
\* assets, no run copies while the assignment is being updated, and the
\* tests directory and the descriptor a run copied are of one version of
\* the assignment.
C3_CopyPhasesSerialized ==
    /\ \A r1, r2 \in Runs :
          (r1 # r2 /\ assignment_dir[r1] = assignment_dir[r2])
              => ~(InCopy(r1) /\ InCopy(r2))
    /\ \A r \in Runs : InCopy(r) => ~Updating(assignment_dir[r])
    /\ \A r \in Runs :
          snap[r].env_ver # NoVer => snap[r].tests = snap[r].env_ver

\* C3, second half: two runs on one assignment, both past their copy, have
\* their sandbox commands running at the same time.
C3_SandboxesOverlap ==
    \E r1, r2 \in Runs :
        /\ r1 # r2
        /\ assignment_dir[r1] = assignment_dir[r2]
        /\ pc[r1] = "sandbox" /\ pc[r2] = "sandbox"
        /\ snap[r1].env_ver # NoVer /\ snap[r2].env_ver # NoVer

\* C4: a run that pulls the image or runs the sandbox command holds no
\* lock, and a run that holds a lock holds the lock of its own assignment
\* and is copying the test assets or archiving the report.
C4_NoLockDuringExecution ==
    \A r \in Runs : \A a \in AssignmentDirs :
        /\ InExecution(r) => r \notin holders[a]
        /\ r \in holders[a] =>
              /\ a = assignment_dir[r]
              /\ pc[r] \in LockedRegion

\* C4: a run's sandbox command is running while another run holds the lock.
C4_SandboxWhileOtherHoldsLock ==
    \E r, q \in Runs :
        /\ r # q
        /\ pc[r] = "sandbox"
        /\ q \in holders[assignment_dir[r]]

\* C5: the lock of an assignment has at most one holder, and a run outside
\* the two locked regions (one that left a region normally or by an
\* exception, one that returned or failed) holds no lock.
C5_LockExclusiveAndReleased ==
    \A a \in AssignmentDirs :
        /\ Cardinality(holders[a]) <= 1
        /\ \A r \in Runs : pc[r] \notin LockedRegion => r \notin holders[a]

\* C5: a run failed inside a locked region and another run holds the lock.
C5_LockTakenAfterFailedRegion ==
    \E r, q \in Runs :
        /\ r # q
        /\ failed_at[r] \in {"cp_tests", "cp_test_env", "reports_clone",
                             "git_commit"}
        /\ holders[assignment_dir[r]] = {q}

\* C6: a submission to a closed class gets one "class closed" email and
\* run_tests returns: no temporary directory, no clone, checkout, copy or
\* sandbox, no lock, no report file, no scan, no failure report.
C6_ClosedClassShortCircuits ==
    \A r \in Runs :
        ~class_open[r] =>
            /\ pc[r] \in {"start", "returned"}
            /\ n[r]["closed_email"] = (IF pc[r] = "returned" THEN 1 ELSE 0)
            /\ \A e \in Events \ {"closed_email"} : n[r][e] = 0
            /\ temp_path[r] = NoDir
            /\ \A a \in AssignmentDirs : r \notin holders[a]
            /\ ReportsBy(r) = {}
            /\ failed_at[r] = "none"

\* C6: a submission to a closed class has returned with its email enqueued.
C6_ClosedClassReturned ==
    \E r \in Runs :
        ~class_open[r] /\ pc[r] = "returned" /\ n[r]["closed_email"] = 1

\* what C7 promises besides the email: no report, no tests, no scan
NothingRun(r) ==
    /\ pc[r] \in {"start", "returned"}
    /\ ReportsBy(r) = {}
    /\ n[r]["sandbox"] = 0 /\ n[r]["pull"] = 0 /\ n[r]["scan"] = 0

\* C7 as stated: every submission to a disabled assignment, whether the
\* class is open or closed, gets one "assignment disabled" email, no
\* report, no tests and no scan.
C7_DisabledEmailWhateverTheClass ==
    \A r \in Runs :
        disabled[r] =>
            /\ NothingRun(r)
            /\ pc[r] = "returned" => n[r]["disabled_email"] = 1

\* C7 amended: a submission to a disabled assignment of an open class gets
\* one "assignment disabled" email; in a closed class it gets the "class
\* closed" email and no "assignment disabled" email; in both cases no
\* report, no tests and no scan.
C7_DisabledEmailInOpenClass ==
    \A r \in Runs :
        disabled[r] =>
            /\ NothingRun(r)
            /\ (pc[r] = "returned" /\ class_open[r]) =>
                  n[r]["disabled_email"] = 1 /\ n[r]["closed_email"] = 0
            /\ (pc[r] = "returned" /\ ~class_open[r]) =>
                  n[r]["disabled_email"] = 0 /\ n[r]["closed_email"] = 1

\* C7: two submissions to a disabled assignment have returned, one with the
\* class open and one with the class closed.
C7_DisabledReturnedOpenAndClosed ==
    \E r, q \in Runs :
        /\ disabled[r] /\ class_open[r] /\ pc[r] = "returned"
        /\ disabled[q] /\ ~class_open[q] /\ pc[q] = "returned"

\* the case of C8: a student who is not the faculty owner, class open,
\* assignment enabled, host environment, nothing raised, run over
HostRunCompleted(r) ==
    /\ pc[r] = "returned"
    /\ student[r] # faculty_username
    /\ Accepted(r)
    /\ exec_env[r] = "host"
    /\ failed_at[r] = "none"

\* C8: such a run has enqueued one result email, written one report file,
\* in the student's report directory, enqueued one scan notification and
\* no failure email.
C8_HostRunDeliversOnce ==
    \A r \in Runs :
        HostRunCompleted(r) =>
            /\ n[r]["result_email"] = 1
            /\ Cardinality(ReportsBy(r)) = 1
            /\ \A f \in ReportsBy(r) :
                  f.student = student[r] /\ f.dir = assignment_dir[r]
            /\ n[r]["scan"] = 1
            /\ n[r]["report_failure"] = 0
            /\ n[r]["apology_email"] = 0
            /\ n[r]["diagnostic_email"] = 0

\* C8: a run of that case is over.
C8_HostRunReturned == \E r \in Runs : HostRunCompleted(r)

\* C9: no report file comes from a submission of the faculty owner; such a
\* run never enters the report region, takes the lock for the copy only and
\* enqueues no scan; when it executes successfully the result email is
\* enqueued all the same.
C9_NoReportForFacultyOwner ==
    /\ \A f \in reports :
          student[f.by] # faculty_username /\ f.student # faculty_username
    /\ \A r \in Runs :
          student[r] = faculty_username =>
              /\ pc[r] \notin {"lock_report", "add_report", "write_report",
                                "enqueue_scan"}
              /\ n[r]["lock"] <= 1
              /\ n[r]["scan"] = 0
              /\ (pc[r] = "returned" /\ Accepted(r) /\ failed_at[r] = "none")
                    => n[r]["result_email"] = 1 /\ n[r]["report_failure"] = 0

\* C9: a submission of the faculty owner ran its sandbox and returned.
C9_FacultyRunReturned ==
    \E r \in Runs :
        /\ student[r] = faculty_username
        /\ pc[r] = "returned" /\ failed_at[r] = "none"
        /\ n[r]["sandbox"] = 1 /\ n[r]["result_email"] = 1

\* the descriptor of r's assignment has had an unknown type all along
UnknownEnvAllAlong(r) ==
    /\ assets[assignment_dir[r]].env = "other"
    /\ assets[assignment_dir[r]].env_ver = 0

\* C10: a run on an assignment whose descriptor has an unknown type pulls
\* no image, runs no sandbox command, sends no result email and has called
\* report_failure once when it is over.
C10_UnknownEnvReportedOnce ==
    \A r \in Runs :
        (Accepted(r) /\ UnknownEnvAllAlong(r)) =>
            /\ n[r]["pull"] = 0
            /\ n[r]["sandbox"] = 0
            /\ n[r]["result_email"] = 0
            /\ Ended(r) => n[r]["report_failure"] = 1

\* C11: when the tests directory holds no action script, write_run_action_sh
\* raises without leaving a run_action.sh in the temporary directory, no
\* image is pulled and no sandbox command is run, and the run, once over,
\* has called report_failure once and removed its temporary directory.
C11_NoActionScriptIsInfraFailed ==
    \A r \in Runs :
        failed_at[r] = "no_action_script" =>
            /\ run_action[r] = "absent"
            /\ n[r]["pull"] = 0 /\ n[r]["sandbox"] = 0
            /\ Ended(r) =>
                  /\ n[r]["report_failure"] = 1
                  /\ temp_path[r] \notin tempdirs

\* two files of one report directory with one name
SameName(f, g) ==
    f.dir = g.dir /\ f.student = g.student /\ f.ts = g.ts /\ f.k = g.k

\* C12: the report files of one student and one second are numbered 0, 1,
\* 2, ... without a gap (report-<ts>.txt first, then report-<ts>-k.txt), no
\* two files have one name, no step removes or replaces a report file, and
\* the step that writes a run's report adds exactly one file, which is
\* that run's.
C12_ReportsAppendOnly ==
    /\ [](\A f \in reports :
            /\ f.k > 0 => ReportExists(f.dir, f.student, f.ts, f.k - 1)
            /\ \A g \in reports : SameName(f, g) => f = g)
    /\ [][/\ reports \subseteq reports'
          /\ \A r \in Runs :
                (pc[r] = "write_report" /\ pc'[r] # "write_report") =>
                    /\ Cardinality(reports') = Cardinality(reports) + 1
                    /\ \A f \in reports' \ reports : f.by = r]_vars

\* C12: two runs of one student archived in the same second, the second
\* under the suffix 1.
C12_TwoReportsInOneSecond ==
    \E f, g \in reports :
        /\ f.dir = g.dir /\ f.student = g.student /\ f.ts = g.ts
        /\ f.k = 0 /\ g.k = 1 /\ f.by # g.by

\* C13: every call of report_failure enqueues one apology and one
\* diagnostic email, a run calls it at most once, a run that is over after
\* one of its steps failed has called it once (two failure emails), and a
\* run in which nothing failed, short-circuited or not, never calls it.
C13_FailureReportedOncePerFailedRun ==
    \A r \in Runs :
        /\ n[r]["apology_email"] = n[r]["report_failure"]
        /\ n[r]["diagnostic_email"] = n[r]["report_failure"]
        /\ n[r]["report_failure"] <= 1
        /\ failed_at[r] = "none" => n[r]["report_failure"] = 0
        /\ (Ended(r) /\ failed_at[r] # "none") => n[r]["report_failure"] = 1

\* a run between its mkdtemp and its end
Alive(r) == temp_path[r] # NoDir /\ ~Ended(r)

\* C14: two runs that are alive at the same time have different temporary
\* directories, the directory of a run exists until the run's own cleanup,
\* and the cleanup of a run removes that run's directory and no other.
C14_TempDirsPrivate ==
    /\ [](\A r \in Runs :
            Alive(r) =>
                /\ temp_path[r] \in tempdirs
                /\ \A q \in Runs \ {r} :
                      Alive(q) => temp_path[q] # temp_path[r])
    /\ [][\A r \in Runs :
            (pc[r] = "cleanup" /\ pc'[r] # "cleanup") =>
                /\ tempdirs' = tempdirs \ {temp_path[r]}
                /\ \A q \in Runs \ {r} :
                      Alive(q) => temp_path[q] \in tempdirs']_vars

\* C14: a run has removed its directory while another run, running its
\* sandbox command, still has its own.
C14_CleanupBesideRunningSandbox ==
    \E r, q \in Runs :
        /\ r # q
        /\ pc[r] = "returned" /\ temp_path[r] # NoDir
        /\ temp_path[r] \notin tempdirs
        /\ pc[q] = "sandbox" /\ temp_path[q] \in tempdirs

\* run r waits for the lock of its assignment
Waiting(r) == pc[r] \in {"lock_copy", "lock_report"}

\* C15: once a run has failed, at whatever step, every other run that
\* waits for the lock of the assignment gets it and every other run
\* reaches its end; and the step in which a run fails leaves the position,
\* the temporary directory, the counters, the failure and the report files
\* of every other run as they were.
C15_FailureBlocksNoOtherRun ==
    /\ \A r \in Runs : \A q \in Runs \ {r} :
          /\ (failed_at[r] # "none" /\ Waiting(q))
                 ~> (q \in holders[assignment_dir[q]])
          /\ (failed_at[r] # "none") ~> Ended(q)
    /\ [][\A r \in Runs :
            failed_at'[r] # failed_at[r] =>
                \A q \in Runs \ {r} :
                    /\ pc'[q] = pc[q] /\ failed_at'[q] = failed_at[q]
                    /\ temp_path'[q] = temp_path[q]
                    /\ (temp_path[q] \in tempdirs') =
                          (temp_path[q] \in tempdirs)
                    /\ n'[q] = n[q]
                    /\ {f \in reports' : f.by = q} = ReportsBy(q)]_vars

\* C15: a run failed inside a locked region while the other run was
\* waiting for the lock, and the other run has returned since.
C15_OtherRunEndedAfterFailureUnderLock ==
    \E r, q \in Runs :
        /\ r # q
        /\ failed_at[r] \in {"cp_tests", "cp_test_env", "reports_clone",
                             "git_commit"}
        /\ n[q]["lock"] > 0 /\ n[r]["lock"] > 0
        /\ pc[q] = "returned" /\ failed_at[q] = "none"

\* run r is past the enqueueing of its result email
PastResultEmail(r) ==
    pc[r] \in {"lock_report", "add_report", "write_report", "enqueue_scan",
               "report_failure", "cleanup", "returned"}

PreparationSteps ==
    {"mkdtemp", "git_clone", "git_checkout", "cp_tests", "cp_test_env",
     "no_action_script", "write_run_action_sh", "sudo_chown"}

\* C17: a run whose sandbox command was started has cloned, checked out,
\* copied the tests and the descriptor, written run_action.sh and changed
\* the owner of the directory, each once and without a failure; a result
\* email is enqueued only after the sandbox command returned; a report
\* file is written only after the result email; a run that passed the
\* checks returns from the cleanup step only, and the cleanup step is
\* followed by the return.
C17_StepsStrictlyOrdered ==
    /\ [](\A r \in Runs :
            /\ n[r]["sandbox"] > 0 =>
                  /\ n[r]["sandbox"] = 1
                  /\ n[r]["clone"] = 1 /\ n[r]["checkout"] = 1
                  /\ n[r]["cp"] = 1 /\ snap[r].tests # NoVer
                  /\ snap[r].env_ver # NoVer
                  /\ run_action[r] # "absent"
                  /\ n[r]["chown"] = 1
                  /\ failed_at[r] \notin PreparationSteps
            /\ n[r]["result_email"] > 0 =>
                  n[r]["sandbox"] = 1 /\ body[r] # NoBody
            /\ ReportsBy(r) # {} => n[r]["result_email"] = 1
            /\ pc[r] \in {"add_report", "write_report"} =>
                  n[r]["result_email"] = 1)
    /\ [][\A r \in Runs :
            /\ (Accepted(r) /\ pc[r] # "returned" /\ pc'[r] = "returned")
                  => pc[r] = "cleanup"
            /\ (pc[r] = "cleanup" /\ pc'[r] # "cleanup")
                  => pc'[r] = "returned"
            /\ pc[r] = "returned" => pc'[r] = "returned"]_vars

\* C17: a run went through every step, report included, and returned.
C17_WholeSequenceDone ==
    \E r \in Runs :
        /\ pc[r] = "returned" /\ failed_at[r] = "none"
        /\ n[r]["clone"] = 1 /\ n[r]["checkout"] = 1 /\ n[r]["cp"] = 1
        /\ n[r]["chown"] = 1 /\ n[r]["sandbox"] = 1
        /\ n[r]["result_email"] = 1 /\ n[r]["scan"] = 1
        /\ ReportsBy(r) # {}

\* run r is not over and none of its steps can be taken
Stuck(r) ==
    /\ ~Ended(r)
    /\ ~ENABLED (RunStep(r) \/ LockForCopy(r) \/ LockForReport(r))

\* the holder h of a lock can take a step
HolderCanStep(h) ==
    IF h = Updater THEN ENABLED (UpdateTests \/ UpdateTestEnv)
    ELSE ENABLED RunStep(h)

\* C18: a run that asks for the lock does not hold it; a run takes the
\* lock at most twice, once for the copy and once for the report, and is
\* in the report region only after it left the copy region; and there is
\* no deadlock: a run that cannot take a step is waiting for the lock,
\* which another holder has and can go on to release.
C18_NoNestedAcquisitionNoDeadlock ==
    \A r \in Runs :
        /\ Waiting(r) => r \notin holders[assignment_dir[r]]
        /\ n[r]["lock"] <= 2
        /\ pc[r] \in {"cp_tests", "cp_test_env"} => n[r]["lock"] = 1
        /\ pc[r] \in {"add_report", "write_report"} =>
              n[r]["lock"] = 2 /\ snap[r].env_ver # NoVer
        /\ Stuck(r) =>
              /\ Waiting(r)
              /\ \E h \in holders[assignment_dir[r]] \ {r} : HolderCanStep(h)

\* C18: a run waits for its second acquisition of the lock while another
\* run, in its first locked region, holds it.
C18_SecondAcquisitionWaits ==
    \E r, q \in Runs :
        /\ r # q
        /\ pc[r] = "lock_report" /\ n[r]["lock"] = 1
        /\ Stuck(r)
        /\ pc[q] \in {"cp_tests", "cp_test_env"}
        /\ holders[assignment_dir[r]] = {q}

\* C19: a docker run pulls the image once, holding no lock, before its
\* container command is started, and no other run pulls; the body of the
\* email and of the report is the output of the test command, never that
\* of the pull; when the pull fails the container command is not started,
\* no result email is enqueued, no report is written, and the run calls
\* report_failure once before its cleanup.
C19_PullBeforeContainerOutsideLock ==
    \A r \in Runs :
        /\ n[r]["pull"] <= 1
        /\ n[r]["pull"] = 1 => exec_env[r] = "docker"
        /\ (exec_env[r] = "docker" /\ n[r]["sandbox"] > 0) =>
              n[r]["pull"] = 1 /\ failed_at[r] # "docker_pull"
        /\ pc[r] = "docker_pull" =>
              /\ \A a \in AssignmentDirs : r \notin holders[a]
              /\ n[r]["sandbox"] = 0
        /\ body[r] \in {NoBody} \cup (Outputs \ {"pull_output"})
        /\ \A f \in ReportsBy(r) : f.body \in Outputs \ {"pull_output"}
        /\ failed_at[r] = "docker_pull" =>
              /\ pc[r] \in {"report_failure", "cleanup", "returned"}
              /\ n[r]["sandbox"] = 0 /\ n[r]["result_email"] = 0
              /\ body[r] = NoBody /\ ReportsBy(r) = {}
              /\ n[r]["report_failure"] =
                    (IF pc[r] = "report_failure" THEN 0 ELSE 1)

\* C19: one docker run pulled, ran its container and sent its result while
\* the pull of another docker run failed and was reported.
C19_PullSucceededAndPullFailed ==
    \E r, q \in Runs :
        /\ exec_env[r] = "docker" /\ n[r]["pull"] = 1
        /\ n[r]["sandbox"] = 1 /\ n[r]["result_email"] = 1
        /\ pc[r] = "returned" /\ failed_at[r] = "none"
        /\ failed_at[q] = "docker_pull" /\ pc[q] = "returned"
        /\ n[q]["report_failure"] = 1

\* C20: the cd line of a run's run_action.sh is the one of the descriptor
\* the run copied, and the environment the run resolved to build its
\* sandbox command is the one of the descriptor it copied, whatever
\* update of the assignment came after the copy.
C20_RunUsesItsSnapshot ==
    \A r \in Runs :
        /\ run_action[r] # "absent" =>
              run_action[r] = CdCommand(TestEnvType(snap[r].env))
        /\ exec_env[r] # "unresolved" =>
              exec_env[r] = TestEnvType(snap[r].env)

\* C21: no run both enqueues the result email and calls report_failure:
\* the student of one run gets the result email or the apology, not both.
C21_ResultEmailExcludesFailureReport ==
    \A r \in Runs :
        /\ ~(n[r]["result_email"] > 0 /\ n[r]["report_failure"] > 0)
        /\ n[r]["result_email"] + n[r]["apology_email"] <= 1

\* the failures of the report archive
ArchiveFailures == {"reports_clone", "git_commit"}

\* C22: a run enqueues at most one scan notification, and only in the step
\* that follows its report region: at that step the run holds no lock,
\* its report file is written and its archive did not fail; a run that
\* enqueued a scan has a report file of its own, and a run whose archive
\* failed never reaches that step and enqueues no scan.
C22_ScanOnlyAfterCommittedReport ==
    /\ [](\A r \in Runs :
            /\ n[r]["scan"] <= 1
            /\ pc[r] = "enqueue_scan" =>
                  /\ \A a \in AssignmentDirs : r \notin holders[a]
                  /\ Cardinality(ReportsBy(r)) = 1
                  /\ failed_at[r] = "none"
                  /\ n[r]["scan"] = 0
            /\ n[r]["scan"] > 0 =>
                  /\ Cardinality(ReportsBy(r)) = 1
                  /\ \A f \in ReportsBy(r) :
                        f.student = student[r] /\ f.dir = assignment_dir[r]
                  /\ failed_at[r] = "none"
                  /\ n[r]["lock"] = 2
                  /\ pc[r] \in {"cleanup", "returned"}
            /\ failed_at[r] \in ArchiveFailures =>
                  n[r]["scan"] = 0 /\ pc[r] # "enqueue_scan")
    /\ [][\A r \in Runs :
            n'[r]["scan"] # n[r]["scan"] =>
                /\ pc[r] = "enqueue_scan"
                /\ \A a \in AssignmentDirs :
                      r \notin holders[a] /\ r \notin holders'[a]
                /\ ReportsBy(r) # {}]_vars

\* C22: one run wrote its report and enqueued its scan; the commit of the
\* other run's report failed and that run returned without a scan.
C22_ScanDoneAndArchiveFailed ==
    \E r, q \in Runs :
        /\ n[r]["scan"] = 1 /\ ReportsBy(r) # {} /\ pc[r] = "returned"
        /\ failed_at[q] = "git_commit" /\ pc[q] = "returned"
        /\ n[q]["scan"] = 0 /\ n[q]["report_failure"] = 1
====
